---- MODULE Spec2Model ----
(***************************************************************************)
(* Vennex: histograms of k-mers in the Venn diagram of N k-mer tables.     *)
(* The model follows src/Vennex.c: main's option parsing and setup, the    *)
(* 2-way merge Venn2, the N-way merge Venn, the output loop and release.   *)
(*                                                                         *)
(* Strings are sequences of one-character strings; position Len(s)+1 of a  *)
(* C string is its terminating NUL.  Addresses are counted in int64 cells  *)
(* relative to the block returned by the histogram Malloc (hist = 0).      *)
(***************************************************************************)
EXTENDS Integers, Sequences, FiniteSets, TLC

VARIABLES
  pc,        \* position of main: "args","alloc","open","names","merge",
             \*   "venn2","drain","venn","output","release","exit0","exit1";
             \*   "crash": the process was killed (fault or abort)
  argv,      \* argument vector, argv[0] (the program name) left out
  argi,      \* i of the option loop (line 179)
  argj,      \* j of the option loop: kept operands are argv[1..argj-1]
  HIST_LOW,  \* static int HIST_LOW
  HIST_HGH,  \* static int HIST_HGH
  err,       \* the last message written to standard error ("" if none)
  nway,      \* number of operands
  disk,      \* the k-mer tables on disk, by operand name (the environment)
  hist,      \* address of the histogram block (cells)
  blockLen,  \* number of int64 cells of the block Malloc returned (0: none)
  junk,      \* content of the cells beyond the block when the merge starts
  mem,       \* int64 cells, by address
  comb,      \* int64 *comb[ncomb], indexed 0..ncomb-1
  T,         \* the opened streams, indexed 0..nway-1
  kmer,      \* main's kmer
  upp,       \* upper case names, indexed 0..nway-1
  low,       \* lower case names, indexed 0..nway-1
  Tsel,      \* Venn2: the stream its local T denotes (0 or 1)
  iptr,      \* Venn2: iptr
  jptr,      \* Venn2: jptr
  AminB,     \* Venn2: the local AminB (an address)
  ptr,       \* Venn: ptr[0..nway-1]
  v,         \* the local v: mycmp's result in Venn2, the mask in Venn
  outi,      \* i of the output loop (line 296)
  files,     \* the file system: file name -> payload
  freed      \* << the address given to free(comb[0]) >>, << >> before

vars == << pc, argv, argi, argj, HIST_LOW, HIST_HGH, err, nway, disk, hist,
           blockLen, junk, mem, comb, T, kmer, upp, low, Tsel, iptr, jptr,
           AminB, ptr, v, outi, files, freed >>

(***************************************************************************)
(* Bounds of the model.                                                    *)
(***************************************************************************)
MaxLen   == 2      \* entries per stream
MaxNway  == 3      \* operands
MaxCount == 4      \* counts 0..MaxCount (single-entry streams)
MaxHigh  == 3      \* windows 1 <= LOW <= HIGH <= MaxHigh
MaxJunk  == 1      \* values 0..MaxJunk of the cells beyond the block
MaxHLen  == 7      \* characters after "-h"

(***************************************************************************)
(* Program constants.                                                      *)
(***************************************************************************)
DefaultLow  == 1          \* HIST_LOW = 1
DefaultHigh == 100        \* HIST_HGH = 100
MaxHist     == 32767      \* 0x7fff

(***************************************************************************)
(* Arithmetic helpers.                                                     *)
(***************************************************************************)
RECURSIVE Pow2(_)
Pow2(n) == IF n = 0 THEN 1 ELSE 2 * Pow2(n - 1)

\* b & i is non-zero, for b a power of two and i >= 0
TestBit(b, i) == (i \div b) % 2 = 1

\* bit c of i
BitSet(i, c) == TestBit(Pow2(c), i)

RECURSIVE SumOver(_, _)
SumOver(S, f) ==
  IF S = {} THEN 0
  ELSE LET x == CHOOSE y \in S : TRUE IN f[x] + SumOver(S \ {x}, f)

(***************************************************************************)
(* strtol(nptr,&eptr,10), nptr = s+start-1.  The option strings of the     *)
(* model hold at most MaxHLen characters, so every value read is far below *)
(* INT_MAX: strtol never saturates and the conversion of its long result   *)
(* to the int HIST_LOW / HIST_HGH keeps the value.                         *)
(***************************************************************************)
Digits == << "0", "1", "2", "3", "4", "5", "6", "7", "8", "9" >>

IsDigit(ch) == \E d \in 1..10 : Digits[d] = ch

DigitVal(ch) == (CHOOSE d \in 1..10 : Digits[d] = ch) - 1

CharAt(s, i) == IF i <= Len(s) THEN s[i] ELSE "NUL"

RECURSIVE SkipSpace(_, _)
SkipSpace(s, i) == IF CharAt(s, i) = " " THEN SkipSpace(s, i + 1) ELSE i

RECURSIVE DigitsEnd(_, _)
DigitsEnd(s, i) == IF IsDigit(CharAt(s, i)) THEN DigitsEnd(s, i + 1) ELSE i

RECURSIVE DigitsVal(_, _, _, _)
DigitsVal(s, i, e, acc) ==
  IF i >= e THEN acc
  ELSE DigitsVal(s, i + 1, e, acc * 10 + DigitVal(s[i]))

\* [val |-> the long returned, end |-> eptr as a position of s]
Strtol(s, start) ==
  LET p   == SkipSpace(s, start)
      neg == CharAt(s, p) = "-"
      q   == IF CharAt(s, p) \in {"-", "+"} THEN p + 1 ELSE p
      e   == DigitsEnd(s, q)
      mag == DigitsVal(s, q, e, 0)
  IN  IF e = q THEN [val |-> 0, end |-> start]
      ELSE [val |-> IF neg THEN -mag ELSE mag, end |-> e]

(***************************************************************************)
(* The -h case of main's option switch (lines 185-210).                    *)
(* Result: [low, high, msg]; msg = "" when the switch breaks normally.     *)
(***************************************************************************)
MsgRange  == "Histogram count is out of range"
MsgInval  == "Histogram range is invalid"
MsgSyntax == "Syntax of -h option invalid"
MsgUsage  == "Usage"
MsgOpen   == "Cannot open k-mer table"
MsgKmer   == "K-mer tables do not involve the same K"

ParseH(a, hgh) ==
  LET r1 == Strtol(a, 3)
      lo == r1.val
  IN  IF r1.end > 3
      THEN IF lo < 1 \/ lo > MaxHist
           THEN [low |-> lo, high |-> hgh, msg |-> MsgRange]
           ELSE IF CharAt(a, r1.end) = ":"
                THEN LET r2 == Strtol(a, r1.end + 1)
                         hi == r2.val
                     IN  IF r2.end > r1.end + 1 /\ CharAt(a, r2.end) = "NUL"
                         THEN IF lo > hi
                              THEN [low |-> lo, high |-> hi, msg |-> MsgInval]
                              ELSE [low |-> lo, high |-> hi, msg |-> ""]
                         ELSE [low |-> lo, high |-> hi, msg |-> MsgSyntax]
                ELSE IF CharAt(a, r1.end) = "NUL"
                     THEN [low |-> DefaultLow, high |-> lo, msg |-> ""]
                     ELSE [low |-> lo, high |-> hgh, msg |-> MsgSyntax]
      ELSE [low |-> lo, high |-> hgh, msg |-> MsgSyntax]

IsOption(a) == CharAt(a, 1) = "-"

(***************************************************************************)
(* One iteration of the option loop (lines 179-213), or, when the loop is  *)
(* over, argc = j and the operand count check (lines 214-220).             *)
(***************************************************************************)
ParseArg ==
  /\ pc = "args"
  /\ argi <= Len(argv)
  /\ LET a == argv[argi]
     IN  IF IsOption(a)
         THEN LET r == ParseH(a, HIST_HGH)
              IN  /\ HIST_LOW' = r.low
                  /\ HIST_HGH' = r.high
                  /\ err' = r.msg
                  /\ pc' = IF r.msg = "" THEN "args" ELSE "exit1"
                  /\ UNCHANGED << argv, argj >>
         ELSE /\ argv' = [argv EXCEPT ![argj] = a]
              /\ argj' = argj + 1
              /\ UNCHANGED << HIST_LOW, HIST_HGH, err, pc >>
  /\ argi' = argi + 1
  /\ UNCHANGED << nway, disk, hist, blockLen, junk, mem, comb, T, kmer, upp,
                  low, Tsel, iptr, jptr, AminB, ptr, v, outi, files, freed >>

ArgsDone ==
  /\ pc = "args"
  /\ argi > Len(argv)
  /\ argv' = SubSeq(argv, 1, argj - 1)
  /\ nway' = argj - 1
  /\ IF argj - 1 < 2
     THEN pc' = "exit1" /\ err' = MsgUsage
     ELSE pc' = "alloc" /\ err' = err
  /\ UNCHANGED << argi, argj, HIST_LOW, HIST_HGH, disk, hist, blockLen, junk,
                  mem, comb, T, kmer, upp, low, Tsel, iptr, jptr, AminB, ptr,
                  v, outi, files, freed >>

(***************************************************************************)
(* The k-mer stream library (libfastk), as far as Vennex consumes it.      *)
(* A table on disk is [ok, kmer, ent]; an opened stream is                 *)
(* [kmer, kbyte, ent, cur], cur = 0 before First_Kmer_Entry.               *)
(* A pointer to an entry is [s |-> stream, i |-> index]; NULL is below.    *)
(***************************************************************************)
NULL == [s |-> -1, i |-> 0]

NoTable == [ok |-> FALSE, kmer |-> 0, ent |-> << >>]

KByteOf(k) == (k + 3) \div 4

Lookup(d, name) == IF name \in DOMAIN d THEN d[name] ELSE NoTable

Open_Kmer_Stream(d, name) ==
  LET t == Lookup(d, name)
  IN  [kmer |-> t.kmer, kbyte |-> KByteOf(t.kmer), ent |-> t.ent, cur |-> 0]

\* the stream after First_Kmer_Entry / Next_Kmer_Entry, and the pointer returned
First_Stream(S) == [S EXCEPT !.cur = 1]

Next_Stream(S) ==
  IF S.cur <= Len(S.ent) THEN [S EXCEPT !.cur = S.cur + 1] ELSE S

EntryPtr(S, c) == IF S.cur >= 1 /\ S.cur <= Len(S.ent)
                  THEN [s |-> c, i |-> S.cur] ELSE NULL

KeyAt(p)    == T[p.s].ent[p.i].key
COUNT_OF(p) == T[p.s].ent[p.i].count

(***************************************************************************)
(* mycmp (lines 33-39): first differing byte decides, bytes unsigned.      *)
(***************************************************************************)
RECURSIVE mycmpFrom(_, _, _, _)
mycmpFrom(a, b, k, n) ==
  IF k > n THEN 0
  ELSE IF a[k] # b[k] THEN (IF a[k] < b[k] THEN -1 ELSE 1)
  ELSE mycmpFrom(a, b, k + 1, n)

\* mycmp over char keys: bytes from 128 on compare as negative
SignedByte(x) == IF x >= 128 THEN x - 256 ELSE x

RECURSIVE mycmpSignedFrom(_, _, _, _)
mycmpSignedFrom(a, b, k, n) ==
  IF k > n THEN 0
  ELSE IF a[k] # b[k]
       THEN (IF SignedByte(a[k]) < SignedByte(b[k]) THEN -1 ELSE 1)
  ELSE mycmpSignedFrom(a, b, k + 1, n)

mycmpSigned(a, b, n) == mycmpSignedFrom(a, b, 1, n)

mycmp(a, b, n) == mycmpFrom(a, b, 1, n)

(***************************************************************************)
(* Histogram allocation (lines 230-242).                                   *)
(***************************************************************************)
Ncomb(n) == Pow2(n) - 1

Width(lo, hi) == (hi - lo) + 1

\* the cells Malloc returns for hist
BlockCells(n, lo, hi) == Width(lo, hi)

CombOf(h, n, lo, hi) ==
  [i \in 0..(Ncomb(n) - 1) |-> (h - lo) + i * Width(lo, hi)]

\* the addresses the model keeps: the bank's nominal extent and the reach of
\* the pointers the N-way merge moves
AddrSpace(n, lo, hi) == 0..(Ncomb(n) * Width(lo, hi) + n * MaxLen - 1)

MemOf(h, n, lo, hi, jk) ==
  [a \in AddrSpace(n, lo, hi) |->
     IF a >= h /\ a < h + BlockCells(n, lo, hi) THEN 0 ELSE jk]

Alloc ==
  /\ pc = "alloc"
  /\ hist' = 0
  /\ blockLen' = BlockCells(nway, HIST_LOW, HIST_HGH)
  /\ comb' = CombOf(0, nway, HIST_LOW, HIST_HGH)
  /\ \E jk \in 0..MaxJunk :
        /\ junk' = jk
        /\ mem' = MemOf(0, nway, HIST_LOW, HIST_HGH, jk)
  /\ kmer' = 0
  /\ pc' = "open"
  /\ UNCHANGED << argv, argi, argj, HIST_LOW, HIST_HGH, err, nway, disk, T,
                  upp, low, Tsel, iptr, jptr, AminB, ptr, v, outi, files,
                  freed >>

(***************************************************************************)
(* One iteration of the open loop (lines 247-259), c = number opened.      *)
(***************************************************************************)
Opened == Cardinality(DOMAIN T)

Extend(f, x) ==
  LET k == Cardinality(DOMAIN f)
  IN  [c \in 0..k |-> IF c < k THEN f[c] ELSE x]

\* KmerCheck without the comparison against the first table's K
KmerCheckFirstOnly(km, sk) ==
  IF km = 0 THEN [kmer |-> sk, ok |-> TRUE] ELSE [kmer |-> km, ok |-> TRUE]

\* lines 253-258: main's kmer afterwards, and whether the table passes
KmerCheck(km, sk) ==
  IF km = 0 THEN [kmer |-> sk, ok |-> TRUE]
  ELSE IF sk # km THEN [kmer |-> km, ok |-> FALSE]
  ELSE [kmer |-> km, ok |-> TRUE]

OpenStream ==
  /\ pc = "open"
  /\ LET c == Opened
         t == Lookup(disk, argv[c + 1])
         S == Open_Kmer_Stream(disk, argv[c + 1])
     IN  IF ~t.ok
         THEN /\ pc' = "exit1" /\ err' = MsgOpen
              /\ UNCHANGED << T, kmer >>
         ELSE /\ T' = Extend(T, S)
              /\ kmer' = KmerCheck(kmer, S.kmer).kmer
              /\ IF KmerCheck(kmer, S.kmer).ok
                 THEN /\ err' = err
                      /\ pc' = IF c + 1 < nway THEN "open" ELSE "names"
                 ELSE /\ err' = MsgKmer
                      /\ pc' = "exit1"
  /\ UNCHANGED << argv, argi, argj, HIST_LOW, HIST_HGH, nway, disk, hist,
                  blockLen, junk, mem, comb, upp, low, Tsel, iptr, jptr,
                  AminB, ptr, v, outi, files, freed >>

(***************************************************************************)
(* Names (lines 262-286): the operand cut at its first '.', in upper case, *)
(* and that upper case name in lower case.                                 *)
(***************************************************************************)
LowerCase == << "a", "b", "k" >>
UpperCase == << "A", "B", "K" >>

toupper(ch) ==
  IF \E x \in DOMAIN LowerCase : LowerCase[x] = ch
  THEN UpperCase[CHOOSE x \in DOMAIN LowerCase : LowerCase[x] = ch] ELSE ch

tolower(ch) ==
  IF \E x \in DOMAIN UpperCase : UpperCase[x] = ch
  THEN LowerCase[CHOOSE x \in DOMAIN UpperCase : UpperCase[x] = ch] ELSE ch

RECURSIVE IndexOf(_, _, _)
IndexOf(s, ch, i) ==
  IF i > Len(s) THEN 0 ELSE IF s[i] = ch THEN i ELSE IndexOf(s, ch, i + 1)

\* the string n once *p = '\0' is stored at p = index(n,'.')
CutAtDot(n) ==
  LET p == IndexOf(n, ".", 1) IN IF p = 0 THEN n ELSE SubSeq(n, 1, p - 1)

UppOf(n) == LET r == CutAtDot(n) IN [x \in 1..Len(r) |-> toupper(r[x])]

LowOf(n) == LET u == UppOf(n) IN [x \in 1..Len(u) |-> tolower(u[x])]

MakeNames ==
  /\ pc = "names"
  /\ upp' = [c \in 0..(nway - 1) |-> UppOf(argv[c + 1])]
  /\ low' = [c \in 0..(nway - 1) |-> LowOf(argv[c + 1])]
  /\ pc' = "merge"
  /\ UNCHANGED << argv, argi, argj, HIST_LOW, HIST_HGH, err, nway, disk, hist,
                  blockLen, junk, mem, comb, T, kmer, Tsel, iptr, jptr, AminB,
                  ptr, v, outi, files, freed >>

(***************************************************************************)
(* Clamping (lines 97-102): the bin a contributed count c increments.      *)
(***************************************************************************)
\* BinOf with h[HIST_LOW] in both clamping branches
BinOfLowTwice(c, lo, hi) == IF c <= lo THEN lo ELSE IF c >= hi THEN lo ELSE c

BinOf(c, lo, hi) == IF c <= lo THEN lo ELSE IF c >= hi THEN hi ELSE c

\* the same rule as the drain loop writes it (lines 108-113)
DrainBinOf(c, lo, hi) == IF c <= lo THEN lo ELSE IF c >= hi THEN hi ELSE c

\* h[b] += 1
Bump(m, h, b) == [m EXCEPT ![h + b] = m[h + b] + 1]

\* whether address a lies in the block Malloc returned for hist (line 234)
InBlock(a) == a >= hist /\ a < hist + blockLen

\* The outcomes of h[b] += 1.  Inside the block the cell is incremented.
\* Outside it the store is undefined: the cell belongs to whatever the heap
\* holds there (comb and the streams are allocated right after hist, lines
\* 235 and 248), so afterwards it holds the incremented value or any other
\* value, or the store faults and the process is killed.
\* Each outcome is [mem, ok], ok = FALSE for the fault.
Store(m, h, b) ==
  IF InBlock(h + b)
  THEN { [mem |-> Bump(m, h, b), ok |-> TRUE] }
  ELSE { [mem |-> [m EXCEPT ![h + b] = x], ok |-> TRUE] :
           x \in {m[h + b] + 1} \cup 0..MaxJunk }
       \cup { [mem |-> m, ok |-> FALSE] }

\* if (c > d) c = d   (lines 82-83)
MinCount(c, d) == IF c > d THEN d ELSE c

(***************************************************************************)
(* Dispatch (lines 288-291) and the first entries (66-67, 124-125).        *)
(***************************************************************************)
StartMerge ==
  /\ pc = "merge"
  /\ T' = [c \in 0..(nway - 1) |-> First_Stream(T[c])]
  /\ IF nway = 2
     THEN /\ Tsel' = 0
          /\ AminB' = comb[0]
          /\ iptr' = EntryPtr(First_Stream(T[0]), 0)
          /\ jptr' = EntryPtr(First_Stream(T[1]), 1)
          /\ pc' = "venn2"
          /\ ptr' = ptr
     ELSE /\ ptr' = [c \in 0..(nway - 1) |-> EntryPtr(First_Stream(T[c]), c)]
          /\ pc' = "venn"
          /\ UNCHANGED << Tsel, AminB, iptr, jptr >>
  /\ UNCHANGED << argv, argi, argj, HIST_LOW, HIST_HGH, err, nway, disk, hist,
                  blockLen, junk, mem, comb, kmer, upp, low, v, outi, files,
                  freed >>

(***************************************************************************)
(* Venn2, one iteration of the comparison loop (lines 68-103).             *)
(***************************************************************************)
\* which cursors the comparison result advances
AdvancesT(r) == r <= 0
AdvancesU(r) == r >= 0

\* the histogram h selected by the comparison result
HistFor(r, aminb, bmina, inter) ==
  IF r = 0 THEN inter ELSE IF r < 0 THEN aminb ELSE bmina

\* the contributed count c
CountFor(r, c, d) ==
  IF r = 0 THEN MinCount(c, d) ELSE IF r < 0 THEN c ELSE d

\* the stream and histogram the drain loop works on once iptr == NULL
\* (lines 69-74): T = U; iptr = jptr; AminB = BminA
SwapOnExhaust(tsel, ip, jp, aminb, bmina) ==
  [Tsel |-> 1, iptr |-> jp, AminB |-> bmina]

Venn2Step ==
  /\ pc = "venn2"
  /\ IF iptr = NULL
     THEN LET w == SwapOnExhaust(Tsel, iptr, jptr, AminB, comb[1])
          IN  /\ Tsel' = w.Tsel /\ iptr' = w.iptr /\ AminB' = w.AminB
              /\ pc' = "drain"
              /\ UNCHANGED << jptr, T, mem, v >>
     ELSE IF jptr = NULL
     THEN /\ pc' = "drain"
          /\ UNCHANGED << Tsel, iptr, jptr, AminB, T, mem, v >>
     ELSE LET r  == mycmp(KeyAt(iptr), KeyAt(jptr), T[0].kbyte)
              h  == HistFor(r, AminB, comb[1], comb[2])
              c  == CountFor(r, COUNT_OF(iptr), COUNT_OF(jptr))
              T0 == IF AdvancesT(r) THEN Next_Stream(T[0]) ELSE T[0]
              T1 == IF AdvancesU(r) THEN Next_Stream(T[1]) ELSE T[1]
          IN  /\ v' = r
              /\ T' = [T EXCEPT ![0] = T0, ![1] = T1]
              /\ iptr' = IF AdvancesT(r) THEN EntryPtr(T0, 0) ELSE iptr
              /\ jptr' = IF AdvancesU(r) THEN EntryPtr(T1, 1) ELSE jptr
              /\ \E o \in Store(mem, h, BinOf(c, HIST_LOW, HIST_HGH)) :
                    /\ mem' = o.mem
                    /\ pc' = IF o.ok THEN pc ELSE "crash"
              /\ UNCHANGED << Tsel, AminB >>
  /\ UNCHANGED << argv, argi, argj, HIST_LOW, HIST_HGH, err, nway, disk, hist,
                  blockLen, junk, comb, kmer, upp, low, ptr, outi, files,
                  freed >>

(***************************************************************************)
(* Venn2, one iteration of the drain loop (lines 105-114).                 *)
(***************************************************************************)
Venn2Drain ==
  /\ pc = "drain"
  /\ IF iptr # NULL
     THEN LET c  == COUNT_OF(iptr)
              TS == Next_Stream(T[Tsel])
          IN  /\ T' = [T EXCEPT ![Tsel] = TS]
              /\ iptr' = EntryPtr(TS, Tsel)
              /\ \E o \in Store(mem, AminB, DrainBinOf(c, HIST_LOW, HIST_HGH)) :
                    /\ mem' = o.mem
                    /\ pc' = IF o.ok THEN pc ELSE "crash"
              /\ outi' = outi
     ELSE /\ pc' = "output"
          /\ outi' = 1
          /\ UNCHANGED << T, iptr, mem >>
  /\ UNCHANGED << argv, argi, argj, HIST_LOW, HIST_HGH, err, nway, disk, hist,
                  blockLen, junk, comb, kmer, upp, low, Tsel, jptr, AminB,
                  ptr, v, files, freed >>

(***************************************************************************)
(* Venn, one iteration of the merge loop (lines 126-154).                  *)
(***************************************************************************)
\* lines 127-129: the first c with ptr[c] != NULL, nway if there is none
RECURSIVE FirstActive(_, _, _)
FirstActive(p, c, n) ==
  IF c >= n THEN n ELSE IF p[c] # NULL THEN c ELSE FirstActive(p, c + 1, n)

\* lines 134-145: the scan from c on, with imin and the list in[] so far
RECURSIVE Scan(_, _, _, _, _, _)
Scan(p, c, n, imin, in, kb) ==
  IF c >= n THEN in
  ELSE IF p[c] = NULL THEN Scan(p, c + 1, n, imin, in, kb)
  ELSE LET r == mycmp(KeyAt(p[c]), KeyAt(p[imin]), kb)
       IN  IF r = 0 THEN Scan(p, c + 1, n, imin, Append(in, c), kb)
           ELSE IF r < 0 THEN Scan(p, c + 1, n, c, << c >>, kb)
           ELSE Scan(p, c + 1, n, imin, in, kb)

\* the list in[0..itop-1] of one iteration
Tied(p, n, kb) ==
  LET c == FirstActive(p, 0, n) IN Scan(p, c + 1, n, c, << c >>, kb)

\* lines 147-152: v |= (1 << x) over the list
RECURSIVE MaskOf(_, _)
MaskOf(in, k) ==
  IF k > Len(in) THEN 0
  ELSE LET rest == MaskOf(in, k + 1)
       IN  IF BitSet(rest, in[k]) THEN rest ELSE rest + Pow2(in[k])

InList(in, x) == \E k \in 1..Len(in) : in[k] = x

VennStep ==
  /\ pc = "venn"
  /\ IF FirstActive(ptr, 0, nway) >= nway
     THEN /\ pc' = "output"
          /\ outi' = 1
          /\ UNCHANGED << T, ptr, v, comb >>
     ELSE LET in == Tied(ptr, nway, T[0].kbyte)
              m  == MaskOf(in, 1)
              TN == [c \in 0..(nway - 1) |->
                       IF InList(in, c) THEN Next_Stream(T[c]) ELSE T[c]]
          IN  /\ v' = m
              /\ T' = TN
              /\ ptr' = [c \in 0..(nway - 1) |->
                           IF InList(in, c) THEN EntryPtr(TN[c], c) ELSE ptr[c]]
              /\ comb' = [comb EXCEPT ![m - 1] = comb[m - 1] + 1]
              /\ outi' = outi
              /\ pc' = pc
  /\ UNCHANGED << argv, argi, argj, HIST_LOW, HIST_HGH, err, nway, disk, hist,
                  blockLen, junk, mem, kmer, upp, low, Tsel, iptr, jptr,
                  AminB, files, freed >>

(***************************************************************************)
(* Output, one iteration of the loop over i (lines 296-315).               *)
(***************************************************************************)
\* lines 297-306: b = 1 before the loop over c, tested as b & i for every c
RECURSIVE LabelFrom(_, _, _, _, _, _)
LabelFrom(c, n, b, i, up, lw) ==
  IF c >= n THEN << >>
  ELSE (IF c # 0 THEN << "_" >> ELSE << >>)
       \o (IF TestBit(b, i) THEN up[c] ELSE lw[c])
       \o LabelFrom(c + 1, n, b, i, up, lw)

HistSuffix == << ".", "h", "i", "s", "t" >>

FileName(i, n, up, lw) == LabelFrom(0, n, 1, i, up, lw) \o HistSuffix

\* the counters write() takes from comb[i-1]+HIST_LOW on
Payload(i) ==
  [kmer |-> kmer, low |-> HIST_LOW, high |-> HIST_HGH,
   data |-> [x \in HIST_LOW..HIST_HGH |-> mem[comb[i - 1] + x]]]

WriteHist ==
  /\ pc = "output"
  /\ IF outi <= Ncomb(nway)
     THEN LET name == FileName(outi, nway, upp, low)
          IN  /\ files' = [f \in DOMAIN files \cup {name} |->
                             IF f = name THEN Payload(outi) ELSE files[f]]
              /\ outi' = outi + 1
              /\ pc' = pc
     ELSE /\ pc' = "release"
          /\ UNCHANGED << files, outi >>
  /\ UNCHANGED << argv, argi, argj, HIST_LOW, HIST_HGH, err, nway, disk, hist,
                  blockLen, junk, mem, comb, T, kmer, upp, low, Tsel, iptr,
                  jptr, AminB, ptr, v, freed >>

(***************************************************************************)
(* Release (lines 318-335).                                                *)
(***************************************************************************)
\* free(p): defined only for the address Malloc returned; for any other
\* address the allocator either goes on or aborts the process
FreeOutcomes(p) == IF p = hist THEN {"exit0"} ELSE {"exit0", "crash"}

Release ==
  /\ pc = "release"
  /\ freed' = << comb[0] >>
  /\ pc' \in FreeOutcomes(comb[0])
  /\ UNCHANGED << argv, argi, argj, HIST_LOW, HIST_HGH, err, nway, disk, hist,
                  blockLen, junk, mem, comb, T, kmer, upp, low, Tsel, iptr,
                  jptr, AminB, ptr, v, outi, files >>

(***************************************************************************)
(* The inputs.                                                             *)
(***************************************************************************)
Key(x, y) == << x, y >>

Entry(k, c) == [key |-> k, count |-> c]

\* the tables on disk of the full program's runs, by operand
Disk ==
  ( << "a" >>           :> [ok |-> TRUE, kmer |-> 5,
                            ent |-> << Entry(Key(0, 1), 3), Entry(Key(1, 0), 1) >>] )
  @@ ( << "b", ".", "k" >> :> [ok |-> TRUE, kmer |-> 5,
                            ent |-> << Entry(Key(0, 1), 2), Entry(Key(0, 200), 5) >>] )
  @@ ( << "1" >>        :> [ok |-> TRUE, kmer |-> 5,
                            ent |-> << Entry(Key(1, 0), 1) >>] )
  @@ ( << "k" >>        :> [ok |-> TRUE, kmer |-> 7,
                            ent |-> << Entry(Key(0, 0), 1) >>] )

Operands == DOMAIN Disk \cup { << "x" >> }

OperandLists == UNION { [1..n -> Operands] : n \in 1..MaxNway }

HOptions == { << "-", "h", "2" >>, << "-", "h", "2", ":", "3" >>,
              << "-", "h", "3", ":", "2" >>, << "-", "h", ":", "2" >> }

ArgvSet == OperandLists \cup { << h >> \o o : h \in HOptions, o \in OperandLists }

EmptyFn == [x \in {} |-> 0]

\* the state main starts in (lines 175-178)
Start(av, d) ==
  /\ pc = "args"
  /\ argv = av
  /\ argi = 1
  /\ argj = 1
  /\ HIST_LOW = DefaultLow
  /\ HIST_HGH = DefaultHigh
  /\ err = ""
  /\ nway = 0
  /\ disk = d
  /\ hist = 0
  /\ blockLen = 0
  /\ junk = 0
  /\ mem = EmptyFn
  /\ comb = EmptyFn
  /\ T = EmptyFn
  /\ kmer = 0
  /\ upp = EmptyFn
  /\ low = EmptyFn
  /\ Tsel = 0
  /\ iptr = NULL
  /\ jptr = NULL
  /\ AminB = 0
  /\ ptr = EmptyFn
  /\ v = 0
  /\ outi = 0
  /\ files = EmptyFn
  /\ freed = << >>

Init == \E av \in ArgvSet : Start(av, Disk)

Next ==
  \/ ParseArg
  \/ ArgsDone
  \/ Alloc
  \/ OpenStream
  \/ MakeNames
  \/ StartMerge
  \/ Venn2Step
  \/ Venn2Drain
  \/ VennStep
  \/ WriteHist
  \/ Release

Spec == Init /\ [][Next]_vars

(***************************************************************************)
(* Option parsing alone: every -h argument of at most MaxHLen characters   *)
(* over HChars, followed by two operands.                                  *)
(***************************************************************************)
HChars == { "0", "4", ":", "-" }

HStrings == UNION { [1..n -> HChars] : n \in 0..MaxHLen }

InitH ==
  \E s \in HStrings :
     Start(<< << "-", "h" >> \o s, << "a" >>, << "1" >> >>, Disk)

NextH == ParseArg \/ ArgsDone

SpecH == InitH /\ [][NextH]_vars

(***************************************************************************)
(* The merge alone, from the state main's setup leaves (pc = "merge"),     *)
(* over all strictly increasing streams of at most MaxLen entries.         *)
(***************************************************************************)
Bytes == { 0, 200 }

KeySet == { Key(x, y) : x \in Bytes, y \in Bytes }

\* the order the tables are sorted in: the key read as a base-256 number
RECURSIVE KeyVal(_, _)
KeyVal(k, n) == IF n = 0 THEN 0 ELSE KeyVal(k, n - 1) * 256 + k[n]

Increasing(ks) ==
  \A x \in 1..Len(ks) : \A y \in 1..Len(ks) :
     x < y => KeyVal(ks[x], Len(ks[x])) < KeyVal(ks[y], Len(ks[y]))

KeySeqs(K, L) ==
  { ks \in UNION { [1..n -> K] : n \in 0..L } : Increasing(ks) }

StreamsOver(K, L, C) ==
  UNION { { [x \in 1..Len(ks) |-> Entry(ks[x], cs[x])] : cs \in [1..Len(ks) -> C] }
          : ks \in KeySeqs(K, L) }

Streams(L, C) == StreamsOver(KeySet, L, C)

\* keys that differ in the first byte, in the second, and across 127
VennKeys == { Key(0, 0), Key(0, 200), Key(200, 0) }

MergeKmer == 5

OperandName(c) == << LowerCase[(c % 3) + 1] >>

\* the state main's setup (lines 175-286) leaves for n tables with the
\* entries ents[0..n-1], window [lo,hi] and jk beyond the block
AfterSetup(n, lo, hi, jk, ents) ==
  /\ pc = "merge"
  /\ argv = [c \in 1..n |-> OperandName(c - 1)]
  /\ argi = n + 1
  /\ argj = n + 1
  /\ HIST_LOW = lo
  /\ HIST_HGH = hi
  /\ err = ""
  /\ nway = n
  /\ disk = EmptyFn
  /\ hist = 0
  /\ blockLen = BlockCells(n, lo, hi)
  /\ junk = jk
  /\ mem = MemOf(0, n, lo, hi, jk)
  /\ comb = CombOf(0, n, lo, hi)
  /\ T = [c \in 0..(n - 1) |->
            [kmer |-> MergeKmer, kbyte |-> KByteOf(MergeKmer),
             ent |-> ents[c], cur |-> 0]]
  /\ kmer = MergeKmer
  /\ upp = [c \in 0..(n - 1) |-> UppOf(OperandName(c))]
  /\ low = [c \in 0..(n - 1) |-> LowOf(OperandName(c))]
  /\ Tsel = 0
  /\ iptr = NULL
  /\ jptr = NULL
  /\ AminB = 0
  /\ ptr = EmptyFn
  /\ v = 0
  /\ outi = 0
  /\ files = EmptyFn
  /\ freed = << >>

(***************************************************************************)
(* The N-way merge alone: the runs main hands to Venn (nway > 2).          *)
(***************************************************************************)
InitVenn ==
  \E n \in 3..MaxNway : \E jk \in 0..MaxJunk :
     \E ents \in [0..(n - 1) -> StreamsOver(VennKeys, MaxLen, {1})] :
        AfterSetup(n, 1, 2, jk, ents)

NextVenn == StartMerge \/ VennStep

SpecVenn == InitVenn /\ [][NextVenn]_vars

MergeCounts == { 1, 3 }

MergeWindows == { << 1, 2 >>, << 2, 3 >> }

\* 2-way runs with counts and windows, N-way runs (which read no count)
InitMerge ==
  \/ \E w \in MergeWindows : \E jk \in 0..MaxJunk :
       \E ents \in [0..1 -> Streams(MaxLen, MergeCounts)] :
          AfterSetup(2, w[1], w[2], jk, ents)
  \/ InitVenn

NextMerge == StartMerge \/ Venn2Step \/ Venn2Drain \/ VennStep

SpecMerge == InitMerge /\ [][NextMerge]_vars

\* the merge loops are plain sequential code: an enabled step is taken
SpecMergeFair == SpecMerge /\ WF_vars(NextMerge)

(***************************************************************************)
(* The 2-way merge of streams of at most one entry, over every count in    *)
(* 0..MaxCount and every window 1 <= LOW <= HIGH <= MaxHigh.               *)
(***************************************************************************)
InitClamp ==
  \E lo \in 1..MaxHigh : \E hi \in lo..MaxHigh : \E jk \in 0..MaxJunk :
     \E ents \in [0..1 -> Streams(1, 0..MaxCount)] :
        AfterSetup(2, lo, hi, jk, ents)

NextClamp == StartMerge \/ Venn2Step \/ Venn2Drain

SpecClamp == InitClamp /\ [][NextClamp]_vars

(***************************************************************************)
(* Properties.                                                             *)
(***************************************************************************)
Masks == 1..Ncomb(nway)

\* the cell at address a when the merge starts
InitCell(a) == IF a >= hist /\ a < hist + blockLen THEN 0 ELSE junk

\* the input identifier c: the operand up to its first '.'
Ident(c) == CutAtDot(argv[c + 1])

Upper(s) == [x \in 1..Len(s) |-> toupper(s[x])]
Lower(s) == [x \in 1..Len(s) |-> tolower(s[x])]

HasLetter(s) == \E x \in 1..Len(s) : toupper(s[x]) # tolower(s[x])

RECURSIVE ExpectedLabel(_, _)
ExpectedLabel(m, c) ==
  IF c >= nway THEN << >>
  ELSE (IF c # 0 THEN << "_" >> ELSE << >>)
       \o (IF BitSet(m, c) THEN Upper(Ident(c)) ELSE Lower(Ident(c)))
       \o ExpectedLabel(m, c + 1)

ExpectedFile(m) == ExpectedLabel(m, 0) \o HistSuffix

\* C6: once the -h argument has been parsed, either the run has ended in a
\* fatal error (a message on standard error, nonzero exit) or the window
\* satisfies 1 <= LOW <= HIGH <= 32767.
C6_WindowValidated ==
  (pc = "args" /\ argi > 1) \/ pc = "alloc"
     => /\ 1 <= HIST_LOW
        /\ HIST_LOW <= HIST_HGH
        /\ HIST_HGH <= MaxHist

\* C9: the bank is one block of (2^N - 1) * (HIGH - LOW + 1) counters, zero
\* before the merge starts; the counters of every mask 1..2^N - 1 lie inside
\* the block; the pointer released is the block's start.
C9_BankInsideBlock ==
  /\ blockLen > 0 =>
       /\ blockLen = Ncomb(nway) * Width(HIST_LOW, HIST_HGH)
       /\ \A m \in Masks : \A b \in HIST_LOW..HIST_HGH :
             /\ comb[m - 1] + b >= hist
             /\ comb[m - 1] + b < hist + blockLen
             /\ pc = "merge" => mem[comb[m - 1] + b] = 0
  /\ freed # << >> => freed[1] = hist

\* C5: the file written for mask m is named by the upper case form of input
\* identifier c where bit c of m is set and its lower case form elsewhere;
\* when every identifier holds a letter the masks' files are distinct, so
\* 2^N - 1 files exist after the run.
C5_LabelPerMask ==
  pc \in {"output", "release", "exit0"} =>
     /\ \A m \in 1..(outi - 1) : ExpectedFile(m) \in DOMAIN files
     /\ (\A c \in 0..(nway - 1) : HasLetter(Ident(c)))
           => Cardinality(DOMAIN files) = outi - 1

\* C8: a run that has ended in a fatal error has reported it, has advanced
\* no cursor and has created no .hist file; whenever a .hist file exists all
\* N streams were opened and share one k-mer length.
C8_FatalBeforeWork ==
  /\ pc = "exit1" =>
       /\ err # ""
       /\ DOMAIN files = {}
       /\ \A c \in DOMAIN T : T[c].cur = 0
  /\ DOMAIN files # {} =>
       /\ DOMAIN T = 0..(nway - 1)
       /\ \A c \in DOMAIN T : Lookup(disk, argv[c + 1]).ok /\ T[c].kmer = kmer

\* a run that stops on tables of different K after opening the first
C8_Witness == pc = "exit1" /\ err = MsgKmer /\ Opened >= 1

(***************************************************************************)
(* The streams as sets of keys, for the properties of the merge.           *)
(***************************************************************************)
StreamIds == 0..(nway - 1)

KeysOf(c) == { T[c].ent[x].key : x \in 1..Len(T[c].ent) }

UnionKeys == UNION { KeysOf(c) : c \in StreamIds }

\* the count stream c holds for key k
CountIn(c, k) ==
  T[c].ent[CHOOSE x \in 1..Len(T[c].ent) : T[c].ent[x].key = k].count

\* the subset of streams holding k, as a mask
MemberMask(k) ==
  SumOver({ c \in StreamIds : k \in KeysOf(c) }, [c \in StreamIds |-> Pow2(c)])

\* the histogram of mask m as allocated
HistBase(m) == (hist - HIST_LOW) + (m - 1) * Width(HIST_LOW, HIST_HGH)

\* the increments bin b of the histogram at h has received
Received(h, b) == mem[h + b] - InitCell(h + b)

\* what the merge has counted for mask m: the increments the counters of
\* the mask's histogram have received
Assigned(m) ==
  SumOver(HIST_LOW..HIST_HGH, [b \in HIST_LOW..HIST_HGH |-> Received(HistBase(m), b)])

Exhausted(c) == T[c].cur = Len(T[c].ent) + 1

\* the streams whose cursor a step moves, as a mask
Moved(c) == T[c].cur' # T[c].cur
StepMask ==
  SumOver({ c \in StreamIds : Moved(c) }, [c \in StreamIds |-> Pow2(c)])

\* a step of a merge loop that consumes entries
MergeIter == pc \in {"venn2", "drain", "venn"} /\ T' # T

\* C1: when the merge has finished the counter of every subset mask holds
\* the number of distinct keys whose set of streams is that mask, so the
\* counters sum to the number of distinct keys of the union; each merge step
\* adds exactly 1 to the counter of the mask of the streams it consumes from,
\* and nothing to the others.
C1_Finished ==
  pc = "output" =>
     /\ \A m \in Masks :
           Assigned(m) = Cardinality({ k \in UnionKeys : MemberMask(k) = m })
     /\ SumOver(Masks, [m \in Masks |-> Assigned(m)]) = Cardinality(UnionKeys)

C1_Step ==
  MergeIter =>
     /\ StepMask \in Masks
     /\ \A m \in Masks :
           Assigned(m)' = Assigned(m) + (IF m = StepMask THEN 1 ELSE 0)

C1_Complete == [] C1_Finished /\ [][C1_Step]_vars

\* C10: every step of the N-way merge advances exactly the non-exhausted
\* streams whose current key is the least current key, leaves the cursors of
\* the others alone, and its mask has bit i set exactly for those streams.
Active == { c \in StreamIds : ptr[c] # NULL }

KeyLE(a, b) == KeyVal(a, Len(a)) <= KeyVal(b, Len(b))

AtMinimum ==
  { c \in Active : \A d \in Active : KeyLE(KeyAt(ptr[c]), KeyAt(ptr[d])) }

C10_Step ==
  pc = "venn" /\ pc' = "venn" =>
     /\ \A c \in StreamIds :
           IF c \in AtMinimum
           THEN T[c].cur' = T[c].cur + 1
           ELSE T[c]' = T[c] /\ ptr[c]' = ptr[c]
     /\ v' = SumOver(AtMinimum, [c \in StreamIds |-> Pow2(c)])
     /\ v' \in Masks
     /\ \A c \in StreamIds : BitSet(v', c) <=> c \in AtMinimum

C10_TiedSet == [][C10_Step]_vars

\* a step of a 3-way merge has just advanced two of the three streams
C10_Witness == pc = "venn" /\ nway = 3 /\ v \in {3, 5, 6}

(***************************************************************************)
(* The 2-way merge.                                                        *)
(***************************************************************************)
Common == KeysOf(0) \cap KeysOf(1)

MinOf(a, b) == IF a <= b THEN a ELSE b

\* c brought into [LOW,HIGH]
Clamped(c) ==
  LET u == IF c > HIST_HGH THEN HIST_HGH ELSE c
  IN  IF u < HIST_LOW THEN HIST_LOW ELSE u

BothHold == pc = "venn2" /\ iptr # NULL /\ jptr # NULL

\* C2: a step of Venn2 on two equal keys makes one increment, in the
\* intersection histogram, at the bin of the clamped minimum of the two
\* counts, and advances both cursors by one; when the merge has finished the
\* intersection histogram holds one increment per common key, at that bin.
C2_Step ==
  BothHold /\ KeyAt(iptr) = KeyAt(jptr) =>
     /\ mem' = [mem EXCEPT
                  ![HistBase(3) + Clamped(MinOf(COUNT_OF(iptr), COUNT_OF(jptr)))] = @ + 1]
     /\ T[0].cur' = T[0].cur + 1
     /\ T[1].cur' = T[1].cur + 1

C2_Finished ==
  pc = "output" /\ nway = 2 =>
     \A b \in HIST_LOW..HIST_HGH :
        Received(HistBase(3), b) =
          Cardinality({ k \in Common :
                          Clamped(MinOf(CountIn(0, k), CountIn(1, k))) = b })

C2_Intersection == [] C2_Finished /\ [][C2_Step]_vars

\* C3: when Venn2 has finished, the A-only histogram holds one increment per
\* key of A absent from B and the B-only histogram one per key of B absent
\* from A, each at the bin of the entry's own clamped count; for disjoint
\* streams the intersection histogram holds none.
C3_Exclusive ==
  pc = "output" /\ nway = 2 =>
     \A b \in HIST_LOW..HIST_HGH :
        /\ Received(HistBase(1), b) =
             Cardinality({ k \in KeysOf(0) \ KeysOf(1) : Clamped(CountIn(0, k)) = b })
        /\ Received(HistBase(2), b) =
             Cardinality({ k \in KeysOf(1) \ KeysOf(0) : Clamped(CountIn(1, k)) = b })
        /\ Common = {} => Received(HistBase(3), b) = 0

\* C7: both merges finish; they finish only with every stream exhausted;
\* every iteration that stays in a loop advances at least one cursor, and a
\* cursor moves by one entry at a time and never past the end.
C7_Step ==
  pc \in {"venn2", "drain", "venn"} /\ pc' = pc =>
     /\ \A c \in StreamIds :
           /\ T[c].cur' \in {T[c].cur, T[c].cur + 1}
           /\ T[c].cur' <= Len(T[c].ent) + 1
           /\ T[c].ent' = T[c].ent
     /\ \E c \in StreamIds : T[c].cur' = T[c].cur + 1

C7_Finished == pc = "output" => \A c \in StreamIds : Exhausted(c)

C7_Terminates ==
  /\ <>(pc = "output")
  /\ [] C7_Finished
  /\ [][C7_Step]_vars

\* C4: every increment of Venn2, in the comparison loop and in the drain
\* loop, is aimed at one bin b of one histogram, with b = LOW when the
\* contributed count c <= LOW, b = HIGH when c >= HIGH and b = c otherwise;
\* b lies in [LOW,HIGH], no other cell changes, and a bin inside the
\* allocated block is incremented by 1.
Contributed ==
  IF pc = "drain" THEN COUNT_OF(iptr)
  ELSE IF KeyAt(iptr) = KeyAt(jptr)
       THEN MinOf(COUNT_OF(iptr), COUNT_OF(jptr))
       ELSE IF KeyLE(KeyAt(iptr), KeyAt(jptr)) THEN COUNT_OF(iptr)
       ELSE COUNT_OF(jptr)

C4_Step ==
  BothHold \/ (pc = "drain" /\ iptr # NULL) =>
     \E m \in Masks : \E b \in HIST_LOW..HIST_HGH :
        /\ \A a \in DOMAIN mem : a # HistBase(m) + b => mem'[a] = mem[a]
        /\ InBlock(HistBase(m) + b) =>
              mem'[HistBase(m) + b] = mem[HistBase(m) + b] + 1
        /\ Contributed <= HIST_LOW => b = HIST_LOW
        /\ Contributed >= HIST_HGH => b = HIST_HGH
        /\ HIST_LOW < Contributed /\ Contributed < HIST_HGH => b = Contributed

C4_Clamping == [][C4_Step]_vars

\* the drain loop has counted an entry of A above HIGH in bin HIGH of the
\* A-only histogram, in a window that has an inside
C4_Witness ==
  /\ pc = "output"
  /\ HIST_LOW + 2 <= HIST_HGH
  /\ \E k \in KeysOf(0) \ KeysOf(1) : CountIn(0, k) > HIST_HGH
  /\ KeysOf(1) = {}
  /\ Received(HistBase(1), HIST_HGH) = 1

====
